---- MODULE Spec2Model ----
(***************************************************************************)
(* Consumer Source, Consumer Lock and the fenced offset commit of the      *)
(* consumer-group coordinator (yellowstone_log/consumer_group).            *)
(*                                                                         *)
(* One (group, consumer, execution) slot is modelled: its lock lease in    *)
(* the coordination store, its row of consumer_shard_offset_v2, the join   *)
(* calls that compete for the slot and the Consumer Source each winning    *)
(* call spawns.  A source whose lease was lost keeps running until it      *)
(* notices, so an old and a new source can be active at the same time.     *)
(*                                                                         *)
(* The coordinator backend (coordinator.rs) is modelled on top: its command *)
(* queue, its per-group maps of watches, election attempts and leader      *)
(* handles, its list of supervisor handles, and the tasks it spawns.  The  *)
(* slot specifications leave the coordinator's state alone and the         *)
(* coordinator specification leaves the slot's.                            *)
(***************************************************************************)
EXTENDS Integers, Sequences, FiniteSets

\* ------------------------------------------------------------------ bounds
MaxRev == 3        \* revisions the coordination store hands out
LogLen == 2        \* events in every (shard, event type) partition of the log
SinkCap == 1       \* capacity of the bounded sink channel

Calls == {1, 2}    \* JoinGroup calls for the slot; call j spawns source j
ShardIds == {0, 1}
InitRevisions == {0, 1}   \* revision the offset row may carry before any commit

MaxCmds == 2       \* commands the clients send to the coordinator
MaxElections == 2  \* election tasks the coordinator spawns
Cmds == 1..MaxCmds
Groups == {1, 2}       \* consumer group ids
Utf8Groups == {1}      \* the group ids whose bytes are valid UTF-8
\* The (group, consumer) slots JoinGroup is called for.
JoinArgs == {<<1, 1>>, <<1, 2>>, <<2, 1>>}

\* --------------------------------------------------------------- constants
UNDEFINED_SLOT == -1
EvTypes == {"AccountUpdate", "NewTransaction"}

\* BTreeMap<BlockchainEventType, _> iterates in the enum's declaration order.
EvOrd(ev) == IF ev = "AccountUpdate" THEN 0 ELSE 1

\* The log: partition (shard, event type) holds offsets 1..LogLen; slots do
\* not decrease with the offset.
LogSlot(offset) == 10 + (offset \div 2)

VARIABLES
  \* coordination store
  rev,            \* the store's revision counter
  lock,           \* calls whose lock lease on the slot is alive
  \* durable store
  subscribed,     \* ctx.subscribed_event_types of the group
  row,            \* consumer_shard_offset_v2 row: acc, tx, revision
  \* join calls
  join,           \* per call: "none", "permit", "joined", "LockContended"
  \* ConsumerSource, one per call
  pc,             \* position of run()
  shard_iterators,\* BTreeMap<ShardId, ShardIterator>
  cur,            \* shard the for loop is at
  final,          \* the commit in progress is the interrupt's
  token,          \* fencing token of the commit in progress
  interrupt,      \* oneshot: "empty", "signalled", "closed", "taken"
  sender,         \* the sink: [len, closed]
  result,         \* what run() returned
  \* history
  input,          \* shard_offset_map_per_blockchain_event_type given to new()
  sent,           \* events the sink accepted, in order
  applied,        \* applied commits, in order: [src, token]
  order,          \* calls that won the lock, in the order they won it
  sig,            \* since the interrupt was signalled: commits, visits;
                  \* since it was handled: commits (fin), Len(sent) then (mark);
                  \* the iterators as the current sweep found them (pre)
  \* ConsumerGroupCoordinatorBackend
  rx,                         \* mpsc queue of commands (ids of the calls)
  cpc,                        \* run(): "select", "await", "exited", "panicked"
  awaiting,                   \* the call whose supervisor handle is awaited
  background_leader_attempt,  \* group -> election task, 0 when vacant
  leader_handles,             \* group -> leader task, 0 when vacant
  consumer_handles,           \* Vec of supervisor handles (call ids)
  leader_election_watch_map,  \* groups with a leader-election watch
  leader_state_watch_map,     \* groups with a leader-state watch
  \* clients, tasks and stores around the coordinator
  call,           \* per command: kind, group, consumer, state, supervisor
  instance_lock,  \* calls whose consumer lock lease is alive
  leader_info,    \* per group, the leader the coordination store shows
  etasks,         \* election tasks: [cg, st, after_loss]; after_loss: a leader
                  \* of the group had ended when the task was spawned
  ltasks,         \* leader-node tasks: [cg, st, lease]
  store,          \* calls whose group record the group store created
  state_log,      \* calls whose initial state log the coordination store holds
  logged          \* calls whose supervisor failure was logged

slotvars == <<rev, lock, subscribed, row, join, pc, shard_iterators, cur, final,
              token, interrupt, sender, result, input, sent, applied, order, sig>>

coordvars == <<rx, cpc, awaiting, background_leader_attempt, leader_handles,
               consumer_handles, leader_election_watch_map,
               leader_state_watch_map, call, instance_lock, leader_info,
               etasks, ltasks, store, state_log, logged>>

vars == <<slotvars, coordvars>>

srcvars == <<pc, shard_iterators, cur, final, token, interrupt, sender,
             result, input, sent, sig>>

\* ------------------------------------------------------------------ helpers
Min(S) == CHOOSE x \in S : \A y \in S : x <= y
NoShard == Min(ShardIds) - 1
EmptyMap == [k \in {} |-> <<0, UNDEFINED_SLOT>>]
StartMap(S, o) == [k \in S |-> <<o, IF o = 0 THEN UNDEFINED_SLOT ELSE LogSlot(o)>>]

Running(s) == pc[s] \notin {"idle", "returned"}

\* ctx.get_shard_offset_map(ev_type): the column of the row for the type.
Column(r, ev) == IF ev = "AccountUpdate" THEN r.acc ELSE r.tx

\* JoinPermit::spawn: one map per subscribed event type.
ReadInput == [ev \in subscribed |-> Column(row, ev)]

\* Variant: the iterators are built at the start of the log whatever the
\* offsets of the input.
NewShardIterators_from_zero(in) ==
  LET keys == UNION {DOMAIN in[ev] : ev \in DOMAIN in}
      Latest(k) == CHOOSE ev \in DOMAIN in :
                   /\ k \in DOMAIN in[ev]
                   /\ \A f \in DOMAIN in : k \in DOMAIN in[f] => EvOrd(f) <= EvOrd(ev)
  IN [k \in keys |-> [event_type |-> Latest(k), last_offset |-> 0,
                      last_slot |-> UNDEFINED_SLOT]]

\* ConsumerSource::new: the iterators of all types are flattened in event
\* type order and collected into a map keyed by shard id alone, so of two
\* iterators on one shard id the later one replaces the earlier.
NewShardIterators(in) ==
  LET keys == UNION {DOMAIN in[ev] : ev \in DOMAIN in}
      Latest(k) == CHOOSE ev \in DOMAIN in :
                   /\ k \in DOMAIN in[ev]
                   /\ \A f \in DOMAIN in : k \in DOMAIN in[f] => EvOrd(f) <= EvOrd(ev)
  IN [k \in keys |-> [event_type |-> Latest(k),
                      last_offset |-> in[Latest(k)][k][1],
                      last_slot |-> in[Latest(k)][k][2]]]

\* Variant: the map is collected from the positions the iterators had when
\* the sweep began.
get_shard_offset_map_pre_sweep(s, ev) ==
  LET its == sig[s].pre
  IN [k \in {x \in DOMAIN its : its[x].event_type = ev} |->
        <<its[k].last_offset, its[k].last_slot>>]

\* ConsumerSource::get_shard_offset_map
get_shard_offset_map(s, ev) ==
  LET its == shard_iterators[s]
  IN [k \in {x \in DOMAIN its : its[x].event_type = ev} |->
        <<its[k].last_offset, its[k].last_slot>>]

\* Variant: each map is collected for its own type whatever the subscription.
CommitMaps_unfolded(s) ==
  <<get_shard_offset_map(s, "AccountUpdate"),
    get_shard_offset_map(s, "NewTransaction")>>

\* update_consumer_shard_offsets_v2, the match on (b1, b2)
CommitMaps(s) ==
  LET b1 == "AccountUpdate" \in subscribed
      b2 == "NewTransaction" \in subscribed
  IN IF b1 /\ ~b2 THEN <<get_shard_offset_map(s, "AccountUpdate"),
                         get_shard_offset_map(s, "AccountUpdate")>>
     ELSE IF ~b1 /\ b2 THEN <<get_shard_offset_map(s, "NewTransaction"),
                              get_shard_offset_map(s, "NewTransaction")>>
     ELSE <<get_shard_offset_map(s, "AccountUpdate"),
            get_shard_offset_map(s, "NewTransaction")>>

\* Variant: the update carries no condition.
LwtApplies_unconditional(stored, tok) == TRUE

\* Variant: the condition admits an equal revision.
LwtApplies_le(stored, tok) == stored <= tok

\* UPDATE_CONSUMER_SHARD_OFFSET_V2: ... IF revision < ?
LwtApplies(stored, tok) == stored < tok

\* The event an iterator has just returned.
EventAt(s, k) ==
  [event_type |-> shard_iterators[s][k].event_type, shard_id |-> k,
   offset |-> shard_iterators[s][k].last_offset,
   slot |-> shard_iterators[s][k].last_slot]

\* ------------------------------------------------------------------ Init
\* The state shared by every initial state: no call made, no source built.
InitRest ==
  /\ rev = 0
  /\ lock = {}
  /\ join = [j \in Calls |-> "none"]
  /\ pc = [s \in Calls |-> "idle"]
  /\ shard_iterators = [s \in Calls |-> NewShardIterators(EmptyMap)]
  /\ cur = [s \in Calls |-> NoShard]
  /\ final = [s \in Calls |-> FALSE]
  /\ token = [s \in Calls |-> 0]
  /\ interrupt = [s \in Calls |-> "empty"]
  /\ sender = [s \in Calls |-> [len |-> 0, closed |-> FALSE]]
  /\ result = [s \in Calls |-> "none"]
  /\ input = [s \in Calls |-> EmptyMap]
  /\ sent = [s \in Calls |-> <<>>]
  /\ applied = <<>>
  /\ order = <<>>
  /\ sig = [s \in Calls |-> [commits |-> 0, visits |-> 0, fin |-> 0, mark |-> 0,
                             pre |-> NewShardIterators(EmptyMap)]]

\* ConsumerGroupCoordinatorBackend::spawn: every map and list is empty; no
\* command was sent, no task spawned, no group has a leader.
CoordInit ==
  /\ rx = <<>>
  /\ cpc = "select"
  /\ awaiting = 0
  /\ background_leader_attempt = [g \in Groups |-> 0]
  /\ leader_handles = [g \in Groups |-> 0]
  /\ consumer_handles = <<>>
  /\ leader_election_watch_map = {}
  /\ leader_state_watch_map = {}
  /\ call = [c \in Cmds |-> [kind |-> "none", cg |-> 0, cid |-> 0,
                              st |-> "idle", sup |-> "none"]]
  /\ instance_lock = {}
  /\ leader_info = [g \in Groups |-> "none"]
  /\ etasks = <<>>
  /\ ltasks = <<>>
  /\ store = {}
  /\ state_log = {}
  /\ logged = {}

\* The group subscribes to any set of event types; the offset row holds, for
\* each subscribed type, any set of shards at a position of the log (the
\* start of the log or the position an earlier execution committed).  With
\* one type subscribed the row has the folded shape (both maps equal).
Init ==
  /\ InitRest
  /\ CoordInit
  /\ subscribed \in SUBSET EvTypes
  /\ \E S1 \in SUBSET ShardIds, S2 \in SUBSET ShardIds, o \in 0..LogLen :
       /\ Cardinality(subscribed) <= 1 => S1 = S2
       /\ subscribed = {} => S1 = {}
       /\ (S1 \cup S2 = {}) => o = 0
       /\ row = [acc |-> StartMap(S1, o), tx |-> StartMap(S2, o), revision |-> 0]

\* One event type, one shard, from the start of the log; the row may carry
\* a revision written before this coordination store's revisions began.
FenceInit ==
  /\ InitRest
  /\ CoordInit
  /\ subscribed = {"AccountUpdate"}
  /\ \E r0 \in InitRevisions :
       row = [acc |-> StartMap({0}, 0), tx |-> StartMap({0}, 0), revision |-> r0]

\* --------------------------------------------------------- the for loop
\* ShardIterator::try_next: the event past the cursor, if the partition has one.
HasNext(it) == it.last_offset < LogLen
IterNext(it) == [it EXCEPT !.last_offset = it.last_offset + 1,
                           !.last_slot = LogSlot(it.last_offset + 1)]

\* for (shard_id, shard_it) in self.shard_iterators.iter_mut(): the first
\* iterator of a sweep, or the end of the sweep when there is none.
ForFirst(its) ==
  IF DOMAIN its = {} THEN [pc |-> "deadline", cur |-> NoShard]
  ELSE [pc |-> "try_recv", cur |-> Min(DOMAIN its)]

\* Variant: an iterator that has more events is visited again before the
\* sweep moves on.
ForNext_drain(its, k) ==
  LET rest == {x \in DOMAIN its : x > k}
  IN IF HasNext(its[k]) THEN [pc |-> "try_recv", cur |-> k]
     ELSE IF rest = {} THEN [pc |-> "deadline", cur |-> NoShard]
     ELSE [pc |-> "try_recv", cur |-> Min(rest)]

\* The iterator after shard k in the sweep, or the end of the sweep.
ForNext(its, k) ==
  LET rest == {x \in DOMAIN its : x > k}
  IN IF rest = {} THEN [pc |-> "deadline", cur |-> NoShard]
     ELSE [pc |-> "try_recv", cur |-> Min(rest)]

Return(s, res) ==
  /\ pc' = [pc EXCEPT ![s] = "returned"]
  /\ result' = [result EXCEPT ![s] = res]

Goto(s, to) ==
  /\ pc' = [pc EXCEPT ![s] = to.pc]
  /\ cur' = [cur EXCEPT ![s] = to.cur]

\* Entry of update_consumer_shard_offsets_v2: the match on the subscribed
\* types panics when there is none, else the fencing token is requested.
BeginCommit(s, isFinal) ==
  IF subscribed = {}
  THEN Return(s, "panic") /\ UNCHANGED <<final, cur>>
  ELSE /\ pc' = [pc EXCEPT ![s] = "token"]
       /\ final' = [final EXCEPT ![s] = isFinal]
       /\ UNCHANGED <<result, cur>>

\* ------------------------------------------------------------ join calls
\* ConsumerLocker::try_lock_instance_id: the lease is granted when no lease
\* on the slot is alive.
LockFree == lock = {}

\* Variant: the error of try_lock_instance_id is not propagated and the
\* permit is built anyway.
try_spawn_consumer_member_unchecked(j) ==
  /\ join[j] = "none"
  /\ join' = [join EXCEPT ![j] = "permit"]
  /\ IF LockFree
     THEN lock' = lock \cup {j} /\ order' = Append(order, j)
     ELSE UNCHANGED <<lock, order>>
  /\ UNCHANGED <<rev, subscribed, row, applied>>
  /\ UNCHANGED srcvars

\* try_spawn_consumer_member: the lock, then supervisor and permit.
try_spawn_consumer_member(j) ==
  /\ join[j] = "none"
  /\ IF LockFree
     THEN /\ lock' = lock \cup {j}
          /\ order' = Append(order, j)
          /\ join' = [join EXCEPT ![j] = "permit"]
     ELSE /\ join' = [join EXCEPT ![j] = "LockContended"]
          /\ UNCHANGED <<lock, order>>
  /\ UNCHANGED <<rev, subscribed, row, applied>>
  /\ UNCHANGED srcvars

\* JoinPermit::spawn: the supervisor reads one shard-offset map per
\* subscribed type, builds the source and starts run().
spawn(j) ==
  /\ join[j] = "permit"
  /\ join' = [join EXCEPT ![j] = "joined"]
  /\ input' = [input EXCEPT ![j] = ReadInput]
  /\ shard_iterators' = [shard_iterators EXCEPT ![j] = NewShardIterators(ReadInput)]
  /\ pc' = [pc EXCEPT ![j] = "loop"]
  /\ UNCHANGED <<rev, lock, subscribed, row, applied, order, cur, final, token,
                 interrupt, sender, result, sent, sig>>

\* The lease of call j ends: expiry, or the lock is dropped.
LeaseLost(j) ==
  /\ j \in lock
  /\ lock' = lock \ {j}
  /\ UNCHANGED <<rev, subscribed, row, join, applied, order>>
  /\ UNCHANGED srcvars

\* ------------------------------------------------------ ConsumerSource::run
\* loop { for (shard_id, shard_it) in self.shard_iterators.iter_mut() {
Loop(s) ==
  /\ pc[s] = "loop"
  /\ Goto(s, ForFirst(shard_iterators[s]))
  /\ sig' = [sig EXCEPT ![s].pre = shard_iterators[s]]
  /\ UNCHANGED <<rev, lock, subscribed, row, join, applied, order,
                 shard_iterators, final, token, interrupt, sender, result,
                 input, sent>>

\* Variant: a closed interrupt commits like a signalled one.
TryRecv_commit_on_closed(s) ==
  /\ pc[s] = "try_recv"
  /\ IF interrupt[s] \in {"signalled", "closed"}
     THEN /\ interrupt' = [interrupt EXCEPT ![s] = IF @ = "signalled" THEN "taken" ELSE @]
          /\ sig' = [sig EXCEPT ![s].mark = Len(sent[s])]
          /\ BeginCommit(s, TRUE)
     ELSE /\ pc' = [pc EXCEPT ![s] = "try_next"]
          /\ UNCHANGED <<result, interrupt, final, cur, sig>>
  /\ UNCHANGED <<rev, lock, subscribed, row, join, applied, order,
                 shard_iterators, token, sender, input, sent>>

\* match interrupt.try_recv()
TryRecv(s) ==
  /\ pc[s] = "try_recv"
  /\ IF interrupt[s] = "signalled"
     THEN /\ interrupt' = [interrupt EXCEPT ![s] = "taken"]
          /\ sig' = [sig EXCEPT ![s].mark = Len(sent[s])]
          /\ BeginCommit(s, TRUE)
     ELSE /\ IF interrupt[s] = "empty"
             THEN pc' = [pc EXCEPT ![s] = "try_next"] /\ UNCHANGED result
             ELSE Return(s, "orphan")
          /\ UNCHANGED <<interrupt, final, cur, sig>>
  /\ UNCHANGED <<rev, lock, subscribed, row, join, applied, order,
                 shard_iterators, token, sender, input, sent>>

\* shard_it.try_next().await?: the next event of the partition, None when
\* it has none yet, or the error of the store, which run returns.
TryNext(s) ==
  /\ pc[s] = "try_next"
  /\ LET it == shard_iterators[s][cur[s]]
     IN \/ /\ IF HasNext(it)
              THEN /\ shard_iterators' = [shard_iterators EXCEPT ![s][cur[s]] = IterNext(it)]
                   /\ pc' = [pc EXCEPT ![s] = "send"]
                   /\ UNCHANGED cur
              ELSE /\ Goto(s, ForNext(shard_iterators[s], cur[s]))
                   /\ UNCHANGED shard_iterators
           /\ UNCHANGED result
        \/ /\ Return(s, "store_error")
           /\ UNCHANGED <<shard_iterators, cur>>
  /\ sig' = [sig EXCEPT ![s].visits =
               IF interrupt[s] = "signalled" THEN @ + 1 ELSE @]
  /\ UNCHANGED <<rev, lock, subscribed, row, join, applied, order, final, token,
                 interrupt, sender, input, sent>>

\* Variant: a full sink drops the event instead of blocking the source.
Send_drop(s) ==
  /\ pc[s] = "send"
  /\ IF sender[s].closed
     THEN /\ Return(s, "sink_closed")
          /\ UNCHANGED <<sender, sent, cur>>
     ELSE /\ IF sender[s].len < SinkCap
             THEN /\ sender' = [sender EXCEPT ![s].len = @ + 1]
                  /\ sent' = [sent EXCEPT ![s] = Append(@, EventAt(s, cur[s]))]
             ELSE UNCHANGED <<sender, sent>>
          /\ Goto(s, ForNext(shard_iterators[s], cur[s]))
          /\ UNCHANGED result
  /\ UNCHANGED <<rev, lock, subscribed, row, join, applied, order, shard_iterators,
                 final, token, interrupt, input, sig>>

\* self.sender.send(T::from(block_chain_event)).await
Send(s) ==
  /\ pc[s] = "send"
  /\ IF sender[s].closed
     THEN /\ Return(s, "sink_closed")
          /\ UNCHANGED <<sender, sent, cur>>
     ELSE /\ sender[s].len < SinkCap
          /\ sender' = [sender EXCEPT ![s].len = @ + 1]
          /\ sent' = [sent EXCEPT ![s] = Append(@, EventAt(s, cur[s]))]
          /\ Goto(s, ForNext(shard_iterators[s], cur[s]))
          /\ UNCHANGED result
  /\ UNCHANGED <<rev, lock, subscribed, row, join, applied, order, shard_iterators,
                 final, token, interrupt, input, sig>>

\* if commit_offset_deadline.elapsed() > Duration::ZERO
Deadline(s) ==
  /\ pc[s] = "deadline"
  /\ \/ /\ rev < MaxRev
        /\ BeginCommit(s, FALSE)
     \/ /\ pc' = [pc EXCEPT ![s] = "loop"]
        /\ UNCHANGED <<final, result, cur>>
  /\ UNCHANGED <<rev, lock, subscribed, row, join, applied, order, shard_iterators,
                 token, interrupt, sender, input, sent, sig>>

\* self.ctx.generate_fencing_token().await?
GenToken(s) ==
  /\ pc[s] = "token"
  /\ \/ /\ s \in lock
        /\ rev < MaxRev
        /\ rev' = rev + 1
        /\ token' = [token EXCEPT ![s] = rev + 1]
        /\ pc' = [pc EXCEPT ![s] = "execute"]
        /\ UNCHANGED result
     \/ /\ Return(s, "coord_error")
        /\ UNCHANGED <<rev, token>>
  /\ UNCHANGED <<lock, subscribed, row, join, applied, order, shard_iterators, cur,
                 final, interrupt, sender, input, sent, sig>>

\* Variant: a rejected write is retried with a fresh token.
AfterLwt_retry(s, ok) ==
  IF ~ok THEN [pc |-> "token", cur |-> NoShard, result |-> result[s]]
  ELSE IF final[s] THEN [pc |-> "returned", cur |-> NoShard, result |-> "Ok"]
  ELSE [pc |-> "loop", cur |-> NoShard, result |-> result[s]]

\* Variant: the interrupt's commit falls through to the loop.
AfterLwt_no_return(s, ok) ==
  IF ~ok THEN [pc |-> "returned", cur |-> NoShard, result |-> "compromised"]
  ELSE [pc |-> "loop", cur |-> NoShard, result |-> result[s]]

\* What run() does with the result of the conditional write.
AfterLwt(s, ok) ==
  IF ~ok THEN [pc |-> "returned", cur |-> NoShard, result |-> "compromised"]
  ELSE IF final[s] THEN [pc |-> "returned", cur |-> NoShard, result |-> "Ok"]
  ELSE [pc |-> "loop", cur |-> NoShard, result |-> result[s]]

\* session.execute(update_consumer_shard_offset_v2_ps, values)
Execute(s) ==
  /\ pc[s] = "execute"
  /\ LET ok == LwtApplies(row.revision, token[s])
         to == AfterLwt(s, ok)
     IN /\ IF ok
           THEN /\ row' = [acc |-> CommitMaps(s)[1], tx |-> CommitMaps(s)[2],
                           revision |-> token[s]]
                /\ applied' = Append(applied, [src |-> s, token |-> token[s]])
           ELSE UNCHANGED <<row, applied>>
        /\ pc' = [pc EXCEPT ![s] = to.pc]
        /\ cur' = [cur EXCEPT ![s] = to.cur]
        /\ result' = [result EXCEPT ![s] = to.result]
  /\ sig' = [sig EXCEPT ![s].commits =
                 IF interrupt[s] \in {"signalled", "taken"} THEN @ + 1 ELSE @,
               ![s].fin = IF interrupt[s] = "taken" THEN @ + 1 ELSE @]
  /\ UNCHANGED <<rev, lock, subscribed, join, order, shard_iterators, final,
                 token, interrupt, sender, input, sent>>

\* ------------------------------------------------------------ environment
\* The supervisor signals the interrupt.
Signal(s) ==
  /\ Running(s)
  /\ interrupt[s] = "empty"
  /\ interrupt' = [interrupt EXCEPT ![s] = "signalled"]
  /\ UNCHANGED <<rev, lock, subscribed, row, join, applied, order, pc,
                 shard_iterators, cur, final, token, sender, result, input,
                 sent, sig>>

\* The interrupt's sender is dropped without a signal.
DropInterrupt(s) ==
  /\ Running(s)
  /\ interrupt[s] = "empty"
  /\ interrupt' = [interrupt EXCEPT ![s] = "closed"]
  /\ UNCHANGED <<rev, lock, subscribed, row, join, applied, order, pc,
                 shard_iterators, cur, final, token, sender, result, input,
                 sent, sig>>

\* The client takes one event from the sink.
Drain(s) ==
  /\ sender[s].len > 0
  /\ sender' = [sender EXCEPT ![s].len = @ - 1]
  /\ UNCHANGED <<rev, lock, subscribed, row, join, applied, order, pc,
                 shard_iterators, cur, final, token, interrupt, result, input,
                 sent, sig>>

\* The client drops the receiving half of the sink.
CloseSink(s) ==
  /\ Running(s)
  /\ ~sender[s].closed
  /\ sender' = [sender EXCEPT ![s].closed = TRUE]
  /\ UNCHANGED <<rev, lock, subscribed, row, join, applied, order, pc,
                 shard_iterators, cur, final, token, interrupt, result, input,
                 sent, sig>>

SourceStep(s) ==
  \/ Loop(s)
  \/ TryRecv(s)
  \/ TryNext(s)
  \/ Send(s)
  \/ Deadline(s)
  \/ GenToken(s)
  \/ Execute(s)

\* The lock's lease is kept alive: the call that won the slot holds it.
Next ==
  \/ \E j \in Calls : try_spawn_consumer_member(j) /\ UNCHANGED coordvars
  \/ \E j \in Calls : spawn(j) /\ UNCHANGED coordvars
  \/ \E s \in Calls : SourceStep(s) /\ UNCHANGED coordvars
  \/ \E s \in Calls : Signal(s) /\ UNCHANGED coordvars
  \/ \E s \in Calls : DropInterrupt(s) /\ UNCHANGED coordvars
  \/ \E s \in Calls : Drain(s) /\ UNCHANGED coordvars
  \/ \E s \in Calls : CloseSink(s) /\ UNCHANGED coordvars

Spec == Init /\ [][Next]_vars

\* run() is a task of the runtime and is scheduled as long as it can take a
\* step; the client keeps receiving from the sink.
FairSpec ==
  /\ Spec
  /\ \A s \in Calls : WF_vars(SourceStep(s) /\ UNCHANGED coordvars)
  /\ \A s \in Calls : WF_vars(Drain(s) /\ UNCHANGED coordvars)

\* Leases can be lost at any time, so a source may outlive its lock while a
\* later call wins the slot and spawns the next source.
FenceNext ==
  \/ \E j \in Calls : try_spawn_consumer_member(j) /\ UNCHANGED coordvars
  \/ \E j \in Calls : spawn(j) /\ UNCHANGED coordvars
  \/ \E j \in Calls : LeaseLost(j) /\ UNCHANGED coordvars
  \/ \E s \in Calls : SourceStep(s) /\ UNCHANGED coordvars
  \/ \E s \in Calls : Drain(s) /\ UNCHANGED coordvars

FenceSpec == FenceInit /\ [][FenceNext]_vars

\* ======================================================================
\* The coordinator backend
\* ======================================================================
\* String::from_utf8(cg_id.to_vec()) succeeds.
IsUtf8(g) == g \in Utf8Groups

\* Vec::remove(i)
RemoveAt(q, i) == SubSeq(q, 1, i - 1) \o SubSeq(q, i + 1, Len(q))

\* The consumer lock of slot (g, cid) is held by a live lease.
SlotHeld(g, cid) ==
  \E k \in instance_lock : call[k].cg = g /\ call[k].cid = cid

\* The election tasks of group g that have not resolved.
InFlight(g) == {i \in DOMAIN etasks : etasks[i].cg = g /\ etasks[i].st = "running"}

\* A leader-node task of group g has ended.
LeaderEnded(g) ==
  \E i \in DOMAIN ltasks :
    ltasks[i].cg = g /\ ltasks[i].st \in {"finished_ok", "finished_err", "consumed"}

\* The leader-node tasks of group g that run.
RunningLeaders(g) == {i \in DOMAIN ltasks : ltasks[i].cg = g /\ ltasks[i].st = "running"}

\* ------------------------------------------------------------ the clients
\* try_join_consumer_group / create_consumer_group: the command is sent on
\* the coordinator's queue and the caller awaits its callback.
SendCommand(c) ==
  /\ cpc \notin {"exited", "panicked"}
  /\ call[c].st = "idle"
  /\ \A b \in Cmds : b < c => call[b].st # "idle"
  /\ \/ \E a \in JoinArgs :
          call' = [call EXCEPT ![c] = [kind |-> "JoinGroup", cg |-> a[1], cid |-> a[2],
                                       st |-> "queued", sup |-> "none"]]
     \/ call' = [call EXCEPT ![c] = [kind |-> "CreateConsumerGroup", cg |-> 0,
                                     cid |-> 0, st |-> "queued", sup |-> "none"]]
  /\ rx' = Append(rx, c)
  /\ UNCHANGED <<cpc, awaiting, background_leader_attempt, leader_handles,
                 consumer_handles, leader_election_watch_map,
                 leader_state_watch_map, instance_lock, leader_info, etasks,
                 ltasks, store, state_log, logged>>
  /\ UNCHANGED slotvars

\* The caller of try_join_consumer_group goes away before its command is
\* served: the receiving half of its callback is dropped.
Cancel(c) ==
  /\ call[c].kind = "JoinGroup"
  /\ call[c].st = "queued"
  /\ call' = [call EXCEPT ![c].st = "cancelled"]
  /\ UNCHANGED <<rx, cpc, awaiting, background_leader_attempt, leader_handles,
                 consumer_handles, leader_election_watch_map,
                 leader_state_watch_map, instance_lock, leader_info, etasks,
                 ltasks, store, state_log, logged>>
  /\ UNCHANGED slotvars

\* JoinPermit::spawn succeeds: the supervisor has spawned the source, its
\* handle is sent on the coordinator's callback and Ok is returned.
permit_spawn(c) ==
  /\ call[c].st = "permit"
  /\ call' = [call EXCEPT ![c].st = "joined", ![c].sup = "running"]
  /\ UNCHANGED <<rx, cpc, awaiting, background_leader_attempt, leader_handles,
                 consumer_handles, leader_election_watch_map,
                 leader_state_watch_map, instance_lock, leader_info, etasks,
                 ltasks, store, state_log, logged>>
  /\ UNCHANGED slotvars

\* spawn_with fails, or the permit is dropped unused: the callback's sender
\* is dropped with the permit, and the supervisor's lock with it.
permit_drop(c) ==
  /\ call[c].st = "permit"
  /\ call' = [call EXCEPT ![c].st = "dropped"]
  /\ instance_lock' = instance_lock \ {c}
  /\ UNCHANGED <<rx, cpc, awaiting, background_leader_attempt, leader_handles,
                 consumer_handles, leader_election_watch_map,
                 leader_state_watch_map, leader_info, etasks, ltasks, store,
                 state_log, logged>>
  /\ UNCHANGED slotvars

\* The supervisor task of call c completes: Ok(()), Err(supervisor error),
\* or the error of the handle itself.  Its lock goes with it.
SupervisorEnds(c) ==
  /\ call[c].sup = "running"
  /\ \E out \in {"Ok", "Err", "JoinError"} :
       call' = [call EXCEPT ![c].sup = out]
  /\ instance_lock' = instance_lock \ {c}
  /\ UNCHANGED <<rx, cpc, awaiting, background_leader_attempt, leader_handles,
                 consumer_handles, leader_election_watch_map,
                 leader_state_watch_map, leader_info, etasks, ltasks, store,
                 state_log, logged>>
  /\ UNCHANGED slotvars

\* ------------------------------------------------ interpret_command, JoinGroup
\* Variant: the election task is spawned and stored whether or not the
\* group has an entry.
try_become_leader_bg_insert(g) ==
  [attempt |-> [background_leader_attempt EXCEPT ![g] = Len(etasks) + 1],
   tasks |-> Append(etasks, [cg |-> g, st |-> "running", after_loss |-> LeaderEnded(g)])]

\* try_become_leader_bg: entry(consumer_group_id).or_insert_with(spawn).
try_become_leader_bg(g) ==
  IF background_leader_attempt[g] # 0
  THEN [attempt |-> background_leader_attempt, tasks |-> etasks]
  ELSE [attempt |-> [background_leader_attempt EXCEPT ![g] = Len(etasks) + 1],
        tasks |-> Append(etasks, [cg |-> g, st |-> "running", after_loss |-> LeaderEnded(g)])]

\* Variant: the election is launched whatever the watch shows.
AfterLock_always(g, w1, w2) ==
  LET ew == IF w1 THEN leader_election_watch_map \cup {g}
            ELSE leader_election_watch_map
      sw == IF g \in ew /\ w2 THEN leader_state_watch_map \cup {g}
            ELSE leader_state_watch_map
      ok == g \in ew /\ g \in sw
      el == IF ok
            THEN try_become_leader_bg(g)
            ELSE [attempt |-> background_leader_attempt, tasks |-> etasks]
  IN [ew |-> ew, sw |-> sw, ok |-> ok, attempt |-> el.attempt, tasks |-> el.tasks]

\* What try_spawn_consumer_member does past the lock: w1 and w2 are the
\* outcomes of observe_leader_changes and observe_consumer_group_state,
\* which are called when the group has no watch yet.
AfterLock(g, w1, w2) ==
  LET ew == IF w1 THEN leader_election_watch_map \cup {g}
            ELSE leader_election_watch_map
      sw == IF g \in ew /\ w2 THEN leader_state_watch_map \cup {g}
            ELSE leader_state_watch_map
      ok == g \in ew /\ g \in sw
      el == IF ok /\ leader_info[g] = "none"
            THEN try_become_leader_bg(g)
            ELSE [attempt |-> background_leader_attempt, tasks |-> etasks]
  IN [ew |-> ew, sw |-> sw, ok |-> ok, attempt |-> el.attempt, tasks |-> el.tasks]

\* Variant: the lock is asked for after the watches and the election.
JoinGroup_lock_last(c) ==
  /\ cpc = "select"
  /\ rx # <<>> /\ Head(rx) = c
  /\ call[c].kind = "JoinGroup"
  /\ rx' = Tail(rx)
  /\ \E w1, w2 \in BOOLEAN :
       LET g == call[c].cg
           a == AfterLock(g, w1, w2)
           held == SlotHeld(g, call[c].cid)
           gone == call[c].st = "cancelled"
       IN /\ Len(a.tasks) <= MaxElections
          /\ leader_election_watch_map' = a.ew
          /\ leader_state_watch_map' = a.sw
          /\ background_leader_attempt' = a.attempt
          /\ etasks' = a.tasks
          /\ IF ~a.ok \/ held \/ gone
             THEN /\ call' = [call EXCEPT ![c].st =
                               IF gone THEN @
                               ELSE IF ~a.ok THEN "CoordError" ELSE "LockContended"]
                  /\ UNCHANGED <<instance_lock, cpc, awaiting>>
             ELSE /\ call' = [call EXCEPT ![c].st = "permit"]
                  /\ instance_lock' = instance_lock \cup {c}
                  /\ cpc' = "await"
                  /\ awaiting' = c
  /\ UNCHANGED <<leader_handles, consumer_handles, leader_info, ltasks, store,
                 state_log, logged>>
  /\ UNCHANGED slotvars

\* interpret_command, JoinGroup, up to rx.await: try_spawn_consumer_member
\* (the lock, the two watches, the election when no leader is observed, the
\* supervisor and the permit), then the permit or the error is sent on the
\* caller's callback.  A permit that cannot be sent is dropped at once.
JoinGroup(c) ==
  /\ cpc = "select"
  /\ rx # <<>> /\ Head(rx) = c
  /\ call[c].kind = "JoinGroup"
  /\ rx' = Tail(rx)
  /\ LET g == call[c].cg
         gone == call[c].st = "cancelled"
     IN IF SlotHeld(g, call[c].cid)
        THEN /\ call' = [call EXCEPT ![c].st = IF gone THEN @ ELSE "LockContended"]
             /\ UNCHANGED <<cpc, awaiting, background_leader_attempt,
                            leader_election_watch_map, leader_state_watch_map,
                            instance_lock, etasks>>
        ELSE \E w1, w2 \in BOOLEAN :
               LET a == AfterLock(g, w1, w2)
               IN /\ Len(a.tasks) <= MaxElections
                  /\ leader_election_watch_map' = a.ew
                  /\ leader_state_watch_map' = a.sw
                  /\ background_leader_attempt' = a.attempt
                  /\ etasks' = a.tasks
                  /\ IF ~a.ok \/ gone
                     THEN /\ call' = [call EXCEPT ![c].st =
                                       IF gone THEN @ ELSE "CoordError"]
                          /\ UNCHANGED <<instance_lock, cpc, awaiting>>
                     ELSE /\ call' = [call EXCEPT ![c].st = "permit"]
                          /\ instance_lock' = instance_lock \cup {c}
                          /\ cpc' = "await"
                          /\ awaiting' = c
  /\ UNCHANGED <<leader_handles, consumer_handles, leader_info, ltasks, store,
                 state_log, logged>>
  /\ UNCHANGED slotvars

\* Variant: the handle received on the callback is not registered.
await_handle_forget ==
  /\ cpc = "await"
  /\ call[awaiting].st \in {"joined", "dropped"}
  /\ cpc' = "select"
  /\ awaiting' = 0
  /\ UNCHANGED <<rx, background_leader_attempt, leader_handles,
                 consumer_handles, leader_election_watch_map,
                 leader_state_watch_map, call, instance_lock, leader_info,
                 etasks, ltasks, store, state_log, logged>>
  /\ UNCHANGED slotvars

\* interpret_command, JoinGroup, from rx.await on: the handle the permit's
\* spawn sent is registered; a dropped permit registers nothing.
await_handle ==
  /\ cpc = "await"
  /\ call[awaiting].st \in {"joined", "dropped"}
  /\ consumer_handles' = IF call[awaiting].st = "joined"
                         THEN Append(consumer_handles, awaiting)
                         ELSE consumer_handles
  /\ cpc' = "select"
  /\ awaiting' = 0
  /\ UNCHANGED <<rx, background_leader_attempt, leader_handles,
                 leader_election_watch_map, leader_state_watch_map, call,
                 instance_lock, leader_info, etasks, ltasks, store, state_log,
                 logged>>
  /\ UNCHANGED slotvars

\* --------------------------------- interpret_command, CreateConsumerGroup
\* Variant: the state log is written first and the group record after it.
create_consumer_group_log_first(c, s_ok, l_ok) ==
  [store |-> IF l_ok /\ s_ok THEN store \cup {c} ELSE store,
   state_log |-> IF l_ok THEN state_log \cup {c} ELSE state_log,
   st |-> IF s_ok /\ l_ok THEN "created" ELSE "create_failed"]

\* create_consumer_group: create_static_consumer_group, then
\* create_leader_state_log, each with ?; s_ok and l_ok are their outcomes.
create_consumer_group(c, s_ok, l_ok) ==
  [store |-> IF s_ok THEN store \cup {c} ELSE store,
   state_log |-> IF s_ok /\ l_ok THEN state_log \cup {c} ELSE state_log,
   st |-> IF s_ok /\ l_ok THEN "created" ELSE "create_failed"]

\* interpret_command, CreateConsumerGroup: the result goes to the callback.
CreateConsumerGroup(c) ==
  /\ cpc = "select"
  /\ rx # <<>> /\ Head(rx) = c
  /\ call[c].kind = "CreateConsumerGroup"
  /\ rx' = Tail(rx)
  /\ \E s_ok, l_ok \in BOOLEAN :
       LET r == create_consumer_group(c, s_ok, l_ok)
       IN /\ store' = r.store
          /\ state_log' = r.state_log
          /\ call' = [call EXCEPT ![c].st = r.st]
  /\ UNCHANGED <<cpc, awaiting, background_leader_attempt, leader_handles,
                 consumer_handles, leader_election_watch_map,
                 leader_state_watch_map, instance_lock, leader_info, etasks,
                 ltasks, logged>>
  /\ UNCHANGED slotvars

\* ------------------------------------------------------- run(), the select
\* Variant: the old leader handle is replaced without being killed.
create_leader_node_no_kill(g) ==
  [handles |-> [leader_handles EXCEPT ![g] = Len(ltasks) + 1],
   tasks |-> Append(ltasks, [cg |-> g, st |-> "running", lease |-> TRUE])]

\* create_leader_node: the leader task is spawned, its handle inserted in
\* leader_handles, and the handle it replaces, if any, is killed.
create_leader_node(g) ==
  LET old == leader_handles[g]
      killed == IF old # 0 /\ ltasks[old].st = "running"
                THEN [ltasks EXCEPT ![old].st = "aborted", ![old].lease = FALSE]
                ELSE ltasks
  IN [handles |-> [leader_handles EXCEPT ![g] = Len(ltasks) + 1],
      tasks |-> Append(killed, [cg |-> g, st |-> "running", lease |-> TRUE])]

\* wait_for_election_result: the attempt of group g has resolved.  The
\* entry is removed; the group id is turned into text, with ?; a won
\* election creates the leader node.
election_result(g) ==
  LET i == background_leader_attempt[g] IN
  /\ cpc = "select"
  /\ i # 0
  /\ etasks[i].st \in {"won", "lost", "error"}
  /\ background_leader_attempt' = [background_leader_attempt EXCEPT ![g] = 0]
  /\ etasks' = [etasks EXCEPT ![i].st = "done"]
  /\ IF ~IsUtf8(g)
     THEN /\ cpc' = "exited"
          /\ leader_info' = IF etasks[i].st = "won"
                            THEN [leader_info EXCEPT ![g] = "none"]
                            ELSE leader_info
          /\ UNCHANGED <<leader_handles, ltasks>>
     ELSE IF etasks[i].st = "won"
     THEN /\ leader_handles' = create_leader_node(g).handles
          /\ ltasks' = create_leader_node(g).tasks
          /\ UNCHANGED <<cpc, leader_info>>
     ELSE UNCHANGED <<cpc, leader_info, leader_handles, ltasks>>
  /\ UNCHANGED <<rx, awaiting, consumer_handles, leader_election_watch_map,
                 leader_state_watch_map, call, instance_lock, store, state_log,
                 logged>>
  /\ UNCHANGED slotvars

\* wait_for_consumer_to_quit: the supervisor of handle i has completed.  The
\* handle is removed; result? returns on the error of the handle; a
\* supervisor error is logged; the group id is turned into text, with ?.
consumer_quit(i) ==
  /\ cpc = "select"
  /\ i \in DOMAIN consumer_handles
  /\ LET c == consumer_handles[i] IN
       /\ call[c].sup \in {"Ok", "Err", "JoinError"}
       /\ consumer_handles' = RemoveAt(consumer_handles, i)
       /\ call' = [call EXCEPT ![c].sup = "collected"]
       /\ logged' = IF call[c].sup = "Err" THEN logged \cup {c} ELSE logged
       /\ cpc' = IF call[c].sup = "JoinError" \/ ~IsUtf8(call[c].cg)
                 THEN "exited" ELSE "select"
  /\ UNCHANGED <<rx, awaiting, background_leader_attempt, leader_handles,
                 leader_election_watch_map, leader_state_watch_map,
                 instance_lock, leader_info, etasks, ltasks, store, state_log>>
  /\ UNCHANGED slotvars

\* Variant: the end of a leader launches the next election at once.
leader_quit_reelect(g) ==
  LET i == leader_handles[g] IN
  /\ cpc = "select"
  /\ i # 0
  /\ ltasks[i].st \in {"finished_ok", "finished_err"}
  /\ ltasks' = [ltasks EXCEPT ![i].st = "consumed"]
  /\ cpc' = IF IsUtf8(g) THEN "select" ELSE "exited"
  /\ Len(try_become_leader_bg(g).tasks) <= MaxElections
  /\ background_leader_attempt' = try_become_leader_bg(g).attempt
  /\ etasks' = try_become_leader_bg(g).tasks
  /\ UNCHANGED <<rx, awaiting, leader_handles, consumer_handles,
                 leader_election_watch_map, leader_state_watch_map, call,
                 instance_lock, leader_info, store, state_log, logged>>
  /\ UNCHANGED slotvars

\* wait_for_leader_to_quit: the leader task of group g has completed.  Its
\* result is logged after the group id is turned into text, with ?; the
\* handle stays in leader_handles.
leader_quit(g) ==
  LET i == leader_handles[g] IN
  /\ cpc = "select"
  /\ i # 0
  /\ ltasks[i].st \in {"finished_ok", "finished_err"}
  /\ ltasks' = [ltasks EXCEPT ![i].st = "consumed"]
  /\ cpc' = IF IsUtf8(g) THEN "select" ELSE "exited"
  /\ UNCHANGED <<rx, awaiting, background_leader_attempt, leader_handles,
                 consumer_handles, leader_election_watch_map,
                 leader_state_watch_map, call, instance_lock, leader_info,
                 etasks, store, state_log, logged>>
  /\ UNCHANGED slotvars

\* The next select polls every handle of leader_handles again, the ones
\* whose result it has already taken included; a JoinHandle polled after
\* it has completed may panic.
poll_consumed_leader(g) ==
  /\ cpc = "select"
  /\ leader_handles[g] # 0
  /\ ltasks[leader_handles[g]].st = "consumed"
  /\ cpc' = "panicked"
  /\ UNCHANGED <<rx, awaiting, background_leader_attempt, leader_handles,
                 consumer_handles, leader_election_watch_map,
                 leader_state_watch_map, call, instance_lock, leader_info,
                 etasks, ltasks, store, state_log, logged>>
  /\ UNCHANGED slotvars

\* ------------------------------------------------- tasks and the store
\* try_become_leader resolves: Ok(Some(key, lease)) when the group has no
\* leader, Ok(None) on its timeout, or an error.
ElectionResolves(i) ==
  /\ i \in DOMAIN etasks
  /\ etasks[i].st = "running"
  /\ \/ /\ leader_info[etasks[i].cg] = "none"
        /\ etasks' = [etasks EXCEPT ![i].st = "won"]
        /\ leader_info' = [leader_info EXCEPT ![etasks[i].cg] = "self"]
     \/ /\ etasks' = [etasks EXCEPT ![i].st = "lost"]
        /\ UNCHANGED leader_info
     \/ /\ etasks' = [etasks EXCEPT ![i].st = "error"]
        /\ UNCHANGED leader_info
  /\ UNCHANGED <<rx, cpc, awaiting, background_leader_attempt, leader_handles,
                 consumer_handles, leader_election_watch_map,
                 leader_state_watch_map, call, instance_lock, ltasks, store,
                 state_log, logged>>
  /\ UNCHANGED slotvars

\* The lease of a running leader expires; the task has not noticed yet.
LeaderLeaseLost(i) ==
  /\ i \in DOMAIN ltasks
  /\ ltasks[i].st = "running" /\ ltasks[i].lease
  /\ ltasks' = [ltasks EXCEPT ![i].lease = FALSE]
  /\ leader_info' = [leader_info EXCEPT ![ltasks[i].cg] = "none"]
  /\ UNCHANGED <<rx, cpc, awaiting, background_leader_attempt, leader_handles,
                 consumer_handles, leader_election_watch_map,
                 leader_state_watch_map, call, instance_lock, etasks, store,
                 state_log, logged>>
  /\ UNCHANGED slotvars

\* leader_loop returns, with Ok or with an error; its lease goes with it.
LeaderEnds(i) ==
  /\ i \in DOMAIN ltasks
  /\ ltasks[i].st = "running"
  /\ \E out \in {"finished_ok", "finished_err"} :
       ltasks' = [ltasks EXCEPT ![i].st = out, ![i].lease = FALSE]
  /\ leader_info' = IF ltasks[i].lease
                    THEN [leader_info EXCEPT ![ltasks[i].cg] = "none"]
                    ELSE leader_info
  /\ UNCHANGED <<rx, cpc, awaiting, background_leader_attempt, leader_handles,
                 consumer_handles, leader_election_watch_map,
                 leader_state_watch_map, call, instance_lock, etasks, store,
                 state_log, logged>>
  /\ UNCHANGED slotvars

\* Another instance of the coordinator leads the group, until it gives the
\* leadership up; it is followed here up to the first election of this
\* instance for the group.
OtherLeader(g) ==
  /\ \/ leader_info[g] = "other"
     \/ leader_info[g] = "none" /\ \A i \in DOMAIN etasks : etasks[i].cg # g
  /\ leader_info' = [leader_info EXCEPT ![g] = IF @ = "none" THEN "other" ELSE "none"]
  /\ UNCHANGED <<rx, cpc, awaiting, background_leader_attempt, leader_handles,
                 consumer_handles, leader_election_watch_map,
                 leader_state_watch_map, call, instance_lock, etasks, ltasks,
                 store, state_log, logged>>
  /\ UNCHANGED slotvars

\* One step of the coordinator task other than the poll of a handle whose
\* result it has taken.
CoordStep ==
  \/ \E c \in Cmds : JoinGroup(c)
  \/ \E c \in Cmds : CreateConsumerGroup(c)
  \/ await_handle
  \/ \E g \in Groups : election_result(g)
  \/ \E i \in 1..MaxCmds : consumer_quit(i)
  \/ \E g \in Groups : leader_quit(g)

CoordNext ==
  \/ \E c \in Cmds : SendCommand(c)
  \/ \E c \in Cmds : Cancel(c)
  \/ \E c \in Cmds : permit_spawn(c)
  \/ \E c \in Cmds : permit_drop(c)
  \/ \E c \in Cmds : SupervisorEnds(c)
  \/ CoordStep
  \/ \E g \in Groups : poll_consumed_leader(g)
  \/ \E i \in 1..MaxElections : ElectionResolves(i)
  \/ \E i \in 1..MaxElections : LeaderLeaseLost(i)
  \/ \E i \in 1..MaxElections : LeaderEnds(i)
  \/ \E g \in Groups : OtherLeader(g)

\* The slot is left as it starts: one event type, one shard, no call.
CoordStart ==
  /\ InitRest
  /\ CoordInit
  /\ subscribed = {"AccountUpdate"}
  /\ row = [acc |-> StartMap({0}, 0), tx |-> StartMap({0}, 0), revision |-> 0]

CoordSpec == CoordStart /\ [][CoordNext]_vars

\* The coordinator task is scheduled as long as it can take a step.
CoordFairSpec == CoordSpec /\ WF_vars(CoordStep)

\* ======================================================================
\* Properties
\* ======================================================================
Last(q) == q[Len(q)]

\* Call a won the lock before call b did.
WonBefore(a, b) ==
  \E i, k \in DOMAIN order : i < k /\ order[i] = a /\ order[k] = b

\* ---------------------------------------------------------------- C1
\* C1: of the JoinGroup calls for one (group, consumer) at most one holds the
\* lock at any time; a call obtains the lock (and a permit, supervisor and
\* source) exactly when no lease on the slot is alive and fails with
\* LockContended otherwise; a source exists only for a call that won the
\* lock, and no two running sources both hold a live lease.
C1_Uniqueness ==
  /\ [](Cardinality(lock) <= 1)
  /\ [](\A s \in Calls : pc[s] # "idle" => join[s] = "joined" /\ \E i \in DOMAIN order : order[i] = s)
  /\ [](Cardinality({s \in Calls : Running(s) /\ s \in lock}) <= 1)
  /\ [][\A j \in Calls :
          (join[j] = "none" /\ join'[j] # "none") =>
             IF lock = {}
             THEN join'[j] = "permit" /\ lock' = {j}
             ELSE join'[j] = "LockContended" /\ lock' = lock]_vars

\* A call was refused while the source of the other call runs under its lock.
C1_Witness ==
  \E a, b \in Calls :
    /\ join[a] = "LockContended"
    /\ join[b] = "joined" /\ Running(b) /\ b \in lock

\* ---------------------------------------------------------------- C2
\* C2: in the sequence of commits applied to the offset row, no commit of a
\* source whose call won the lock earlier follows a commit of a source whose
\* call won the lock later.
C2_FencingMonotonicity ==
  \A i, k \in DOMAIN applied :
    i < k => ~WonBefore(applied[k].src, applied[i].src)

\* The older source tried to commit after the newer one had committed, and
\* was rejected.
C2_Witness ==
  \E a, b \in Calls :
    /\ WonBefore(a, b)
    /\ \E i \in DOMAIN applied : applied[i].src = b
    /\ result[a] = "compromised"
    /\ token[a] < Last(applied).token

\* ---------------------------------------------------------------- C3
\* C3: a conditional write whose predicate revision < token does not hold
\* makes run return the error "lock is compromised" at once, leaving the row
\* as it was; a source that has returned stays returned, requests no further
\* token, applies no further commit and sends no further event.
C3_FencedIsFatal ==
  /\ [][\A s \in Calls :
          (pc[s] = "execute" /\ pc'[s] # "execute" /\ ~(row.revision < token[s])) =>
             /\ pc'[s] = "returned" /\ result'[s] = "compromised"
             /\ row' = row /\ applied' = applied]_vars
  /\ [][\A s \in Calls :
          pc[s] = "returned" =>
             /\ pc'[s] = "returned" /\ result'[s] = result[s]
             /\ token'[s] = token[s] /\ sent'[s] = sent[s]
             /\ (applied' # applied => Last(applied').src # s)]_vars

\* A source was fenced by a commit of another source.
C3_Witness ==
  \E s \in Calls :
    /\ result[s] = "compromised"
    /\ applied # <<>> /\ Last(applied).src # s
    /\ Len(sent[s]) > 0

\* ---------------------------------------------------------------- C4
\* C4: a commit is applied if and only if the persisted revision is strictly
\* less than its token; it then stores its two maps and its token; a commit
\* whose token is less than or equal to the persisted revision changes
\* nothing; so the persisted revision strictly increases over the applied
\* commits.
C4_RevisionStrictlyIncreasing ==
  /\ [][\A s \in Calls :
          (pc[s] = "execute" /\ pc'[s] # "execute") =>
             IF row.revision < token[s]
             THEN /\ row' = [acc |-> CommitMaps(s)[1], tx |-> CommitMaps(s)[2],
                             revision |-> token[s]]
                  /\ applied' = Append(applied, [src |-> s, token |-> token[s]])
             ELSE row' = row /\ applied' = applied]_vars
  /\ [][row' # row => row'.revision > row.revision]_vars
  /\ [](\A i, k \in DOMAIN applied : i < k => applied[i].token < applied[k].token)

\* A commit was attempted with a token equal to the persisted revision.
C4_Witness ==
  \E s \in Calls : result[s] = "compromised" /\ token[s] = row.revision

\* ---------------------------------------------------------------- C5
\* The events of shard k the sink accepted from source s, in order.
SentOn(s, k) ==
  LET OnShard(e) == e.shard_id = k IN SelectSeq(sent[s], OnShard)

\* C5 as claimed: a run that returns Ok has performed exactly one commit
\* since the interrupt was signalled.
C5_ExactlyOneCommitAfterSignal ==
  \A s \in Calls : result[s] = "Ok" => sig[s].commits = 1

\* C5 as amended: once the interrupt is handled (try_recv returns Ok) the
\* source sends no event, performs exactly one commit, the final one, and
\* returns; a run that returns Ok has handled the interrupt and has performed,
\* since the signal, the final commit and at most one periodic commit before
\* it; after the signal the source reads at most one more iterator.
C5_InterruptCorrectness ==
  \A s \in Calls :
    /\ result[s] = "Ok" =>
         interrupt[s] = "taken" /\ sig[s].fin = 1 /\ sig[s].commits \in {1, 2}
    /\ interrupt[s] = "taken" =>
         /\ Len(sent[s]) = sig[s].mark
         /\ pc[s] \in {"token", "execute", "returned"}
         /\ sig[s].fin <= 1
         /\ sig[s].fin = 1 => pc[s] = "returned"
    /\ sig[s].visits <= 1

\* A run returned Ok after a periodic commit and the final commit both
\* followed the signal, and after reading one more event.
C5_Witness ==
  \E s \in Calls :
    /\ result[s] = "Ok" /\ sig[s].commits = 2 /\ sig[s].fin = 1
    /\ Len(sent[s]) > 0

\* ---------------------------------------------------------------- C6
\* C6: once the interrupt of a source is signalled, run eventually returns,
\* unless the sink stops accepting events.
C6_CancellationTerminates ==
  \A s \in Calls :
    (interrupt[s] = "signalled") ~> (pc[s] = "returned" \/ sender[s].closed)

\* ---------------------------------------------------------------- C7
Delivered(s, ev, k, o) ==
  \E i \in DOMAIN sent[s] :
    sent[s][i].event_type = ev /\ sent[s][i].shard_id = k /\ sent[s][i].offset = o

\* C7: for every (event type, shard) of the input of a source, every event
\* of that partition past the starting offset is eventually sent to the
\* sink, unless the source returns, is interrupted or its sink is closed.
C7_AtLeastOnce ==
  \A s \in Calls : \A ev \in EvTypes : \A k \in ShardIds : \A o \in 1..LogLen :
    [](( /\ pc[s] # "idle"
         /\ ev \in DOMAIN input[s]
         /\ k \in DOMAIN input[s][ev]
         /\ o > input[s][ev][k][1] )
       => <>( \/ Delivered(s, ev, k, o)
              \/ pc[s] = "returned"
              \/ interrupt[s] # "empty"
              \/ sender[s].closed ))

\* ---------------------------------------------------------------- C8
\* The (offset, slot) of the events of shard k the sink accepted from s.
Positions(s, k) ==
  {<<sent[s][i].offset, sent[s][i].slot>> :
     i \in {x \in DOMAIN sent[s] : sent[s][x].shard_id = k}}

\* The (offset, slot) source s was started from on shard k.
Starts(s, k) ==
  {input[s][ev][k] : ev \in {e \in DOMAIN input[s] : k \in DOMAIN input[s][e]}}

\* C8: in the row an applied commit wrote, every shard's (offset, slot) is
\* the position its source started from or the position of an event the sink
\* has accepted from that source; and what a source started from a committed
\* position sends on a shard is the log from the next offset on, without a gap.
C8_CommitNeverAheadOfDelivery ==
  /\ applied # <<>> =>
       \A m \in {row.acc, row.tx} : \A k \in DOMAIN m :
         m[k] \in Starts(Last(applied).src, k) \cup Positions(Last(applied).src, k)
  /\ \A s \in Calls : \A k \in DOMAIN shard_iterators[s] :
       LET it == shard_iterators[s][k]
           start == input[s][it.event_type][k][1]
       IN \A i \in DOMAIN SentOn(s, k) :
            /\ SentOn(s, k)[i].offset = start + i
            /\ SentOn(s, k)[i].slot = LogSlot(start + i)
            /\ SentOn(s, k)[i].event_type = it.event_type

\* A commit stored the position of a delivered event of a source that was
\* started from a committed position inside the log.
C8_Witness ==
  /\ applied # <<>>
  /\ \E k \in DOMAIN row.acc :
       /\ row.acc[k] \in Positions(Last(applied).src, k)
       /\ row.acc[k] \notin Starts(Last(applied).src, k)
       /\ \E p \in Starts(Last(applied).src, k) : p[1] > 0

\* ---------------------------------------------------------------- C9
\* C9: per shard, the events a source sends have strictly increasing offsets
\* and non-decreasing slots; the (offset, slot) of a shard does not decrease
\* from one commit of a source to its next (nor from the position it started
\* from); a source started at the end of a shard's log sends nothing on it.
C9_PerShardOrdering ==
  /\ [](\A s \in Calls : \A i, k \in DOMAIN sent[s] :
          (i < k /\ sent[s][i].shard_id = sent[s][k].shard_id) =>
             /\ sent[s][i].offset < sent[s][k].offset
             /\ sent[s][i].slot <= sent[s][k].slot)
  /\ [][(applied' # applied /\ (applied = <<>> \/ Last(applied).src = Last(applied').src)) =>
          /\ \A k \in DOMAIN row.acc \cap DOMAIN row'.acc :
               row.acc[k][1] <= row'.acc[k][1] /\ row.acc[k][2] <= row'.acc[k][2]
          /\ \A k \in DOMAIN row.tx \cap DOMAIN row'.tx :
               row.tx[k][1] <= row'.tx[k][1] /\ row.tx[k][2] <= row'.tx[k][2]]_vars
  /\ [](\A s \in Calls : \A k \in DOMAIN shard_iterators[s] :
          input[s][shard_iterators[s][k].event_type][k][1] = LogLen =>
             SentOn(s, k) = <<>>)

\* A source has sent two events of one shard and committed twice.
C9_Witness ==
  \E s \in Calls : \E k \in ShardIds :
    /\ Len(SentOn(s, k)) >= 2
    /\ Len(applied) >= 2
    /\ row.acc[k][1] = LogLen

\* ---------------------------------------------------------------- C10
\* C10: a source holds one iterator for every (event type, shard) pair of
\* its input; with both types subscribed and one shard each, every commit
\* stores two non-empty maps.
C10_OneIteratorPerPair ==
  \A s \in Calls :
    pc[s] # "idle" =>
      /\ \A ev \in DOMAIN input[s] : \A k \in DOMAIN input[s][ev] :
           /\ k \in DOMAIN shard_iterators[s]
           /\ shard_iterators[s][k].event_type = ev
      /\ ( /\ DOMAIN input[s] = EvTypes
           /\ \A ev \in EvTypes : Cardinality(DOMAIN input[s][ev]) = 1
           /\ applied # <<>> /\ Last(applied).src = s )
         => (DOMAIN row.acc # {} /\ DOMAIN row.tx # {})

\* ---------------------------------------------------------------- C11
\* The (last_offset, last_slot) of the iterators of source s whose event
\* type is ev, by shard.
Snapshot(s, ev) ==
  [k \in {x \in DOMAIN shard_iterators[s] : shard_iterators[s][x].event_type = ev} |->
     <<shard_iterators[s][k].last_offset, shard_iterators[s][k].last_slot>>]

\* C11: a commit that is applied with exactly one event type subscribed
\* stores in both the account map and the transaction map the current
\* (last_offset, last_slot) of the iterators of that type; with both types
\* subscribed the account map is that of the AccountUpdate iterators and the
\* transaction map that of the NewTransaction iterators.
C11_EventTypeFolding ==
  [][\A s \in Calls :
       (pc[s] = "execute" /\ row' # row) =>
          /\ \A ev \in EvTypes :
               subscribed = {ev} =>
                 row'.acc = Snapshot(s, ev) /\ row'.tx = Snapshot(s, ev)
          /\ subscribed = EvTypes =>
               /\ row'.acc = Snapshot(s, "AccountUpdate")
               /\ row'.tx = Snapshot(s, "NewTransaction")]_vars

\* With only NewTransaction subscribed a commit stored, in both maps, the
\* position of an event the source delivered.
C11_Witness ==
  /\ subscribed = {"NewTransaction"}
  /\ applied # <<>>
  /\ row.acc = row.tx
  /\ \E k \in DOMAIN row.acc :
       /\ row.acc[k] \in Positions(Last(applied).src, k)
       /\ row.acc[k] \notin Starts(Last(applied).src, k)

\* ---------------------------------------------------------------- C12
\* C12: no source whose context has no subscribed event type is in the run
\* loop, and no run ends on "no blockchain event subscribed to".
C12_NoRuntimePanic ==
  \A s \in Calls :
    /\ Running(s) => subscribed # {}
    /\ result[s] # "panic"

C14_OneElectionInFlight ==
  \A g \in Groups :
    /\ Cardinality(InFlight(g)) <= 1
    /\ \A i \in InFlight(g) : background_leader_attempt[g] = i

\* Two JoinGroup commands of one group got past the lock and the watches
\* while no leader was observed, and one election task was spawned.
C14_Witness ==
  \E a, b \in Cmds :
    /\ a # b /\ call[a].cg = call[b].cg
    /\ call[a].st \in {"permit", "joined"} /\ call[b].st \in {"permit", "joined"}
    /\ Len(etasks) = 1
    /\ etasks[1].cg = call[a].cg /\ etasks[1].st = "running"
    /\ leader_info[call[a].cg] = "none"

\* ---------------------------------------------------------------- C15
\* The coordinator serves the JoinGroup command of call c in this step.
ServesJoin(c) ==
  /\ cpc = "select"
  /\ rx # <<>> /\ Head(rx) = c /\ rx' = Tail(rx)
  /\ call[c].kind = "JoinGroup"

\* C15: a JoinGroup whose slot is held returns the lock error to its caller
\* and changes nothing else: no watch is registered, no election launched,
\* no permit built, no handle added, no lock taken, and the coordinator is
\* back at its select.
C15_LockFailureLeavesNoTrace ==
  [][\A c \in Cmds :
       (ServesJoin(c) /\ SlotHeld(call[c].cg, call[c].cid)) =>
          /\ call'[c].st = IF call[c].st = "cancelled" THEN "cancelled"
                           ELSE "LockContended"
          /\ \A b \in Cmds \ {c} : call'[b] = call[b]
          /\ cpc' = "select"
          /\ UNCHANGED <<leader_election_watch_map, leader_state_watch_map,
                         background_leader_attempt, etasks, consumer_handles,
                         instance_lock, leader_handles, ltasks, awaiting>>]_vars

\* A JoinGroup was refused on the lock while the holder of the slot is
\* joined, its election has resolved without a leader, and the coordinator
\* is at its select with the holder's handle.
C15_Witness ==
  \E a, b \in Cmds :
    /\ call[a].st = "LockContended"
    /\ call[b].st = "joined" /\ b \in instance_lock
    /\ call[a].cg = call[b].cg /\ call[a].cid = call[b].cid
    /\ consumer_handles = <<b>>
    /\ background_leader_attempt[call[a].cg] = 0
    /\ leader_info[call[a].cg] = "none"
    /\ cpc = "select"

\* ---------------------------------------------------------------- C16
\* C16 as claimed: once a leader-node task of a group has ended, an election
\* attempt for the group is eventually in flight.
C16_LeaderLossLeadsToElection ==
  \A g \in Groups : LeaderEnded(g) ~> (InFlight(g) # {})

\* C16 as amended: the coordinator only logs the end of a leader-node task:
\* that step spawns no election and leaves the maps of attempts and of
\* leader handles as they are; an election task of a group is spawned only
\* by a JoinGroup of that group that got its lock while no leader was
\* observed and the group had no attempt.
C16_ElectionOnlyOnJoin ==
  [][/\ \A g \in Groups :
          (leader_handles[g] # 0 /\ leader_handles'[g] = leader_handles[g]
             /\ ltasks[leader_handles[g]].st \in {"finished_ok", "finished_err"}
             /\ ltasks'[leader_handles[g]].st = "consumed") =>
             UNCHANGED <<background_leader_attempt, etasks, leader_handles>>
     /\ etasks' # etasks /\ Len(etasks') > Len(etasks) =>
          \E c \in Cmds :
            /\ ServesJoin(c)
            /\ ~SlotHeld(call[c].cg, call[c].cid)
            /\ leader_info[call[c].cg] = "none"
            /\ background_leader_attempt[call[c].cg] = 0
            /\ etasks'[Len(etasks')].cg = call[c].cg]_vars

\* The end of a leader was logged and, after it, a JoinGroup of the group
\* launched the election that is in flight.
C16_Witness ==
  \E g \in Groups : \E i \in DOMAIN ltasks : \E k \in InFlight(g) :
    /\ ltasks[i].cg = g /\ ltasks[i].st = "consumed"
    /\ etasks[k].after_loss
    /\ cpc = "select"

\* ---------------------------------------------------------------- C17
\* C17: a state-log entry exists only for a group whose record the group
\* store created; serving CreateConsumerGroup answers with the group id
\* exactly when the record and the state-log entry were both written and
\* with an error otherwise, and leaves the coordinator at its select.
C17_CreateGroupOrdering ==
  /\ [](state_log \subseteq store)
  /\ [](\A c \in Cmds :
          /\ call[c].st = "created" => c \in store /\ c \in state_log
          /\ call[c].st = "create_failed" => c \notin state_log)
  /\ [][\A c \in Cmds :
          (call[c].kind = "CreateConsumerGroup" /\ call[c].st = "queued"
             /\ call'[c].st # "queued") =>
             /\ call'[c].st = IF c \in store' /\ c \in state_log'
                              THEN "created" ELSE "create_failed"
             /\ cpc = "select" /\ cpc' = "select"
             /\ rx' = Tail(rx)]_vars

\* One CreateConsumerGroup succeeded; another failed on the state log after
\* its group record was created.
C17_Witness ==
  \E a, b \in Cmds :
    /\ call[a].st = "created" /\ a \in state_log
    /\ call[b].st = "create_failed" /\ b \in store /\ b \notin state_log
    /\ cpc = "select"

\* ---------------------------------------------------------------- C18
\* The supervisor handle of call c is in the coordinator's list.
Registered(c) == \E i \in DOMAIN consumer_handles : consumer_handles[i] = c

\* C18: a call of try_join_consumer_group that returned Ok has a spawned
\* supervisor whose handle is on the callback the coordinator awaits, or in
\* the list of active supervisors, or was removed from it on completion;
\* the coordinator registers the handle it receives when it resumes; the
\* list holds each handle once and only handles of calls that returned Ok;
\* and from the await the coordinator goes back to its select.
C18_JoinHandshake ==
  /\ [](\A c \in Cmds :
          call[c].st = "joined" =>
            /\ call[c].sup # "none"
            /\ \/ cpc = "await" /\ awaiting = c
               \/ Registered(c)
               \/ call[c].sup = "collected")
  /\ [](\A i, k \in DOMAIN consumer_handles :
          /\ call[consumer_handles[i]].st = "joined"
          /\ i # k => consumer_handles[i] # consumer_handles[k])
  /\ [][cpc = "await" /\ cpc' # "await" =>
          /\ cpc' = "select"
          /\ consumer_handles' = IF call[awaiting].st = "joined"
                                 THEN Append(consumer_handles, awaiting)
                                 ELSE consumer_handles]_vars

\* One call returned Ok and its handle is registered; the permit of another
\* was dropped and registered nothing; the coordinator is at its select.
C18_Witness ==
  \E a, b \in Cmds :
    /\ call[a].st = "joined" /\ consumer_handles = <<a>>
    /\ call[b].st = "dropped"
    /\ cpc = "select"

\* ---------------------------------------------------------------- C19
\* C19: a JoinGroup that got its lock and its two watches leaves, when no
\* leader is observed, an election attempt in the group's entry (spawning
\* the task unless the entry holds one), and leaves the attempts and the
\* election tasks as they are when a leader is observed; a JoinGroup that
\* fails on the lock or on a watch launches nothing.
C19_ElectionIffNoLeader ==
  [][\A c \in Cmds :
       ServesJoin(c) =>
         LET g == call[c].cg
             got == /\ ~SlotHeld(g, call[c].cid)
                    /\ g \in leader_election_watch_map'
                    /\ g \in leader_state_watch_map'
         IN IF got /\ leader_info[g] = "none"
            THEN /\ background_leader_attempt'[g] # 0
                 /\ etasks'[background_leader_attempt'[g]].cg = g
                 /\ (etasks' # etasks) = (background_leader_attempt[g] = 0)
                 /\ \A h \in Groups \ {g} :
                      background_leader_attempt'[h] = background_leader_attempt[h]
            ELSE UNCHANGED <<background_leader_attempt, etasks>>]_vars

\* A JoinGroup of one group launched an election; a JoinGroup of the other
\* group, led by another instance, holds its permit and launched none.
C19_Witness ==
  \E a, b \in Cmds :
    /\ call[a].st \in {"joined", "dropped"}
    /\ \E i \in DOMAIN etasks : etasks[i].cg = call[a].cg
    /\ call[b].st = "permit"
    /\ call[b].cg # call[a].cg
    /\ leader_info[call[b].cg] = "other"
    /\ call[b].cg \in leader_election_watch_map
    /\ \A i \in DOMAIN etasks : etasks[i].cg # call[b].cg

\* ---------------------------------------------------------------- C20
\* C20: when the coordinator takes the completion of a supervisor, its
\* handle and only its handle leaves the list, a failure is logged, and the
\* coordinator is back at its select.
C20_SupervisorCompletionHandled ==
  [][\A i \in DOMAIN consumer_handles :
       (cpc = "select" /\ Len(consumer_handles') < Len(consumer_handles)
          /\ call[consumer_handles[i]].sup # "collected"
          /\ call'[consumer_handles[i]].sup = "collected") =>
          /\ consumer_handles' = RemoveAt(consumer_handles, i)
          /\ (call[consumer_handles[i]].sup \in {"Err", "JoinError"} =>
                consumer_handles[i] \in logged')
          /\ cpc' = "select"]_vars

\* ---------------------------------------------------------------- C21
\* C21: when the coordinator takes an election result that is a loss or an
\* error, the group's election entry is removed, the entries of the other
\* groups, the leader handles, the leader tasks and every other map of the
\* coordinator are left as they are, and the coordinator is back at its
\* select with an empty entry for the group, so that a later JoinGroup of
\* the group that observes no leader launches a new attempt.
C21_LostElectionForgotten ==
  [][\A g \in Groups :
       LET i == background_leader_attempt[g] IN
       (/\ cpc = "select"
        /\ i # 0
        /\ etasks[i].st \in {"lost", "error"}
        /\ etasks'[i].st = "done") =>
          /\ background_leader_attempt'[g] = 0
          /\ \A h \in Groups \ {g} :
               background_leader_attempt'[h] = background_leader_attempt[h]
          /\ UNCHANGED <<leader_handles, ltasks, consumer_handles,
                         leader_election_watch_map, leader_state_watch_map,
                         instance_lock, leader_info, store, state_log>>
          /\ cpc' = "select"]_vars

\* ---------------------------------------------------------------- C22
\* The send of source s waits: it holds an event and the sink is full.
Blocked(s) == pc[s] = "send" /\ ~sender[s].closed /\ sender[s].len >= SinkCap

\* C22: while the send of a source waits on a full sink, the source stays
\* at that send, advances no iterator, requests no token and applies no
\* commit; the step that leaves the send of an open sink hands the sink the
\* very event the iterator returned; and of a running source every event its
\* iterators have gone past is among the events the sink accepted, in log
\* order and without a gap, save the one event a send still holds; with a
\* client that keeps receiving, a send that waits is eventually over.
C22_Backpressure ==
  /\ [][\A s \in Calls :
          Blocked(s) =>
            /\ pc'[s] = "send"
            /\ shard_iterators'[s] = shard_iterators[s]
            /\ cur'[s] = cur[s]
            /\ token'[s] = token[s]
            /\ sent'[s] = sent[s]
            /\ (applied' # applied => Last(applied').src # s)]_vars
  /\ [][\A s \in Calls :
          (pc[s] = "send" /\ pc'[s] # "send" /\ ~sender[s].closed) =>
            sent'[s] = Append(sent[s], EventAt(s, cur[s]))]_vars
  /\ [](\A s \in Calls : \A k \in DOMAIN shard_iterators[s] :
          Running(s) =>
            LET it == shard_iterators[s][k]
                start == input[s][it.event_type][k][1]
                held == IF pc[s] = "send" /\ cur[s] = k THEN 1 ELSE 0
            IN /\ Len(SentOn(s, k)) = it.last_offset - start - held
               /\ \A i \in DOMAIN SentOn(s, k) : SentOn(s, k)[i].offset = start + i)
  /\ \A s \in Calls : Blocked(s) ~> (pc[s] # "send")

\* The sink is full of events of a source whose send waits with the last
\* event of a shard's log, read after an earlier event of that shard was
\* accepted.
C22_Witness ==
  \E s \in Calls :
    /\ Blocked(s)
    /\ Len(SentOn(s, cur[s])) >= 1
    /\ EventAt(s, cur[s]).offset = LogLen

\* ---------------------------------------------------------------- C23
\* The errors run returns from the sweep itself.
SweepErrors == {"orphan", "sink_closed", "store_error"}

\* C23: run enters its final commit only after it took the interrupt's
\* signal; on a closed interrupt, on a closed sink and on an error of
\* try_next it returns the error in that very step, which requests no
\* token and leaves the offset row and the applied commits as they are; a
\* run that returned one of these errors has no commit of its own other
\* than the ones applied before, and none is applied for it afterwards.
C23_OnlyInterruptExitCommits ==
  /\ [](\A s \in Calls : final[s] => interrupt[s] = "taken")
  /\ [][\A s \in Calls :
          /\ (pc[s] = "try_recv" /\ interrupt[s] = "closed" /\ pc'[s] # "try_recv") =>
               pc'[s] = "returned" /\ result'[s] = "orphan"
          /\ (pc[s] = "send" /\ sender[s].closed /\ pc'[s] # "send") =>
               pc'[s] = "returned" /\ result'[s] = "sink_closed"
          /\ (pc[s] = "try_next" /\ pc'[s] = "returned") =>
               result'[s] = "store_error"
          /\ (pc[s] # "returned" /\ pc'[s] = "returned" /\ result'[s] \in SweepErrors) =>
               /\ pc[s] \in {"try_recv", "send", "try_next"}
               /\ row' = row /\ applied' = applied
               /\ rev' = rev /\ token'[s] = token[s]]_vars
  /\ [](\A s \in Calls :
          result[s] \in SweepErrors =>
            /\ pc[s] = "returned"
            /\ ~final[s]
            /\ \/ token[s] = 0
               \/ \E i \in DOMAIN applied : applied[i] = [src |-> s, token |-> token[s]])
  /\ [][\A s \in Calls :
          result[s] \in SweepErrors =>
            (applied' # applied => Last(applied').src # s)]_vars

\* A run returned the error of try_next after a commit of its own and after
\* it delivered events past that commit: the row still holds the commit.
C23_Witness ==
  \E s \in Calls :
    /\ result[s] = "store_error"
    /\ applied # <<>> /\ Last(applied).src = s
    /\ row.revision = token[s]
    /\ <<row.acc, row.tx>> # CommitMaps(s)

\* ---------------------------------------------------------------- C24
\* The (last_offset, last_slot) of an iterator.
Position(it) == <<it.last_offset, it.last_slot>>

\* An iterator after one visit of a sweep: one event further when its
\* partition had one.
Visited(it) == IF HasNext(it) THEN IterNext(it) ELSE it

\* C24: an applied commit stores, for every iterator of its source, the
\* iterator's (last_offset, last_slot) at that point, and nothing else; at
\* the final commit, taken when the interrupt is handled before the visit of
\* shard cur, every iterator before cur in the sweep is one visit past the
\* position the sweep found it at and every iterator from cur on is at that
\* position, and an applied final commit stores exactly these.
C24_SnapshotAtCommitPoint ==
  /\ [][\A s \in Calls :
          (pc[s] = "execute" /\ applied' # applied) =>
            /\ \A k \in DOMAIN shard_iterators[s] :
                 \E m \in {row'.acc, row'.tx} :
                   k \in DOMAIN m /\ m[k] = Position(shard_iterators[s][k])
            /\ \A m \in {row'.acc, row'.tx} : \A k \in DOMAIN m :
                 /\ k \in DOMAIN shard_iterators[s]
                 /\ m[k] = Position(shard_iterators[s][k])]_vars
  /\ [](\A s \in Calls :
          (final[s] /\ pc[s] \in {"token", "execute"}) =>
            \A k \in DOMAIN shard_iterators[s] :
              shard_iterators[s][k] =
                IF k < cur[s] THEN Visited(sig[s].pre[k]) ELSE sig[s].pre[k])
  /\ [][\A s \in Calls :
          (final[s] /\ pc[s] = "execute" /\ applied' # applied) =>
            \A m \in {row'.acc, row'.tx} : \A k \in DOMAIN m :
              m[k] = IF k < cur[s] THEN Position(Visited(sig[s].pre[k]))
                     ELSE Position(sig[s].pre[k])]_vars

\* A run returned Ok from an interrupt handled in the middle of a sweep: the
\* row holds the advanced position of the first shard and, for the second
\* shard, the position the sweep found it at, with events still to read.
C24_Witness ==
  \E s \in Calls : \E m \in {row.acc, row.tx} :
    /\ result[s] = "Ok"
    /\ Last(applied).src = s
    /\ DOMAIN m = ShardIds
    /\ m[0] = Position(shard_iterators[s][0])
    /\ m[0] # Position(sig[s].pre[0])
    /\ m[1] = Position(sig[s].pre[1])
    /\ HasNext(sig[s].pre[1])

\* ---------------------------------------------------------------- C25
\* The shards of source s after shard k in the order of the sweep.
After(s, k) == {x \in DOMAIN shard_iterators[s] : x > k}

\* C25: a sweep goes through the iterators in increasing order of shard id,
\* from the first one and without leaving one out; inside a sweep every
\* iterator before the current one is one visit past the position the sweep
\* found it at, the later ones are at that position, and the current one has
\* at most the one event in hand; at the end of the sweep every iterator has
\* been visited once; a periodic commit starts at the end of a sweep only
\* and is followed by the start of the next sweep.
C25_RoundRobinSweep ==
  /\ [][\A s \in Calls :
          /\ (pc[s] = "loop" /\ pc'[s] # "loop") =>
               IF DOMAIN shard_iterators[s] = {}
               THEN pc'[s] = "deadline"
               ELSE pc'[s] = "try_recv" /\ cur'[s] = Min(DOMAIN shard_iterators[s])
          /\ (cur[s] # NoShard /\ cur'[s] # cur[s]) =>
               IF pc'[s] = "try_recv"
               THEN After(s, cur[s]) # {} /\ cur'[s] = Min(After(s, cur[s]))
               ELSE /\ cur'[s] = NoShard
                    /\ pc'[s] = "deadline" => After(s, cur[s]) = {}
          /\ (pc'[s] = "token" /\ pc[s] # "token" /\ ~final'[s]) => pc[s] = "deadline"
          /\ (pc[s] = "execute" /\ ~final[s] /\ pc'[s] \notin {"execute", "returned"}) =>
               pc'[s] = "loop"]_vars
  /\ [](\A s \in Calls : \A k \in DOMAIN shard_iterators[s] :
          LET it == shard_iterators[s][k]
              was == sig[s].pre[k]
          IN /\ pc[s] \in {"try_recv", "try_next", "send"} =>
                  /\ k < cur[s] => it = Visited(was)
                  /\ k > cur[s] => it = was
                  /\ (k = cur[s] /\ pc[s] # "send") => it = was
                  /\ (k = cur[s] /\ pc[s] = "send") => HasNext(was) /\ it = IterNext(was)
             /\ (pc[s] = "deadline" \/ (pc[s] \in {"token", "execute"} /\ ~final[s])) =>
                  cur[s] = NoShard /\ it = Visited(was))

\* At the end of a sweep that took one event from each of two shards, the
\* row holds the positions a commit of the source stored between this sweep
\* and the one before.
C25_Witness ==
  \E s \in Calls : \E m \in {row.acc, row.tx} :
    /\ pc[s] = "deadline"
    /\ applied # <<>> /\ Last(applied).src = s
    /\ DOMAIN shard_iterators[s] = ShardIds
    /\ DOMAIN m = ShardIds
    /\ \A k \in ShardIds :
         /\ m[k] = Position(sig[s].pre[k])
         /\ HasNext(sig[s].pre[k])
         /\ shard_iterators[s][k] = IterNext(sig[s].pre[k])

\* ---------------------------------------------------------------- C26
\* C26: leader_handles holds no handle of a leader task whose completion
\* the coordinator has taken and logged.
C26_LeaderHandlesPending ==
  \A g \in Groups :
    leader_handles[g] # 0 => ltasks[leader_handles[g]].st # "consumed"

\* ---------------------------------------------------------------- C27
\* C27: while a permit is held by a client that has neither activated nor
\* dropped it, the coordinator can take every resolved election, every
\* completed supervisor, every finished leader and the command at the head
\* of its queue.
C27_ResponsiveDuringJoin ==
  \A c \in Cmds :
    call[c].st = "permit" =>
      /\ \A g \in Groups :
           ( /\ background_leader_attempt[g] # 0
             /\ etasks[background_leader_attempt[g]].st \in {"won", "lost", "error"} )
           => ENABLED election_result(g)
      /\ \A i \in DOMAIN consumer_handles :
           call[consumer_handles[i]].sup \in {"Ok", "Err", "JoinError"}
           => ENABLED consumer_quit(i)
      /\ \A g \in Groups :
           ( /\ leader_handles[g] # 0
             /\ ltasks[leader_handles[g]].st \in {"finished_ok", "finished_err"} )
           => ENABLED leader_quit(g)
      /\ \A d \in Cmds :
           (rx # <<>> /\ Head(rx) = d /\ call[d].kind = "CreateConsumerGroup")
           => ENABLED CreateConsumerGroup(d)

====
